---- MODULE Spec2Model ----
(***************************************************************************)
(* IllumiGallery: the Gallery (collection store, slideshow, poster wall)   *)
(* and the Lightbox (preview overlay), as state machines over the page's   *)
(* event handlers.  JavaScript arrays are references: they live in `heap`  *)
(* and the fields that hold them hold a slot number, so that aliasing      *)
(* between the Gallery's lists and the Lightbox's list is visible.         *)
(***************************************************************************)
EXTENDS Integers, Sequences, FiniteSets, TLC

\* ------------------------------------------------------------- bounds
\* most records the master list may hold
MaxWallpapers == 3
\* most files one import batch carries
MaxFiles == 3
\* most transition cleanups (setTimeout, 800 ms) pending at once
MaxPending == 2
\* array slots of the heap (4 live arrays + 2 being built by a classification)
NRefs == 6

\* renders that register the wall's listeners, per page
MaxListeners == 3

\* ------------------------------------------------------------- program constants
\* the 8 style identifiers of AnimationManager.animations
Catalog == {"fade", "slide", "zoom", "rotate", "flip", "cube", "bounce", "wave"}

\* ------------------------------------------------------------- Utils
\* isLandscape refusing a record without height
isLandscapePositive(width, height) == width > height /\ height > 0

isLandscape(width, height) == width > height

\* isPortrait with the tie left out: a square is in neither sub-list
isPortraitStrict(width, height) == height > width

isPortrait(width, height) == height >= width

\* A file name is the sequence of its characters.
\* String.prototype.lastIndexOf: position from 0 of the last ch, -1 if none
lastIndexOf(name, ch) ==
    IF \E i \in DOMAIN name : name[i] = ch
    THEN (CHOOSE i \in DOMAIN name :
            name[i] = ch /\ \A k \in DOMAIN name : name[k] = ch => k <= i) - 1
    ELSE 0 - 1

\* x >>> 0 for the values lastIndexOf('.') - 1 takes: a negative x becomes a
\* number of at least 2^32 - 2, which is past the end of every name
toUint32OrPastEnd(x, length) == IF x < 0 THEN length ELSE x

\* String.prototype.slice(start) for start >= 0
slice(name, start) ==
    IF start >= Len(name) THEN <<>> ELSE SubSeq(name, start + 1, Len(name))

\* String.prototype.toLowerCase on the letters file names use here
lowerChar(c) ==
    CASE c = "J" -> "j" [] c = "P" -> "p" [] c = "G" -> "g" [] c = "N" -> "n"
      [] OTHER -> c

toLowerCase(name) == [i \in DOMAIN name |-> lowerChar(name[i])]

\* Utils.getFileExtension
getFileExtension(filename) ==
    toLowerCase(slice(filename,
                      toUint32OrPastEnd(lastIndexOf(filename, ".") - 1, Len(filename)) + 2))

validExtensions ==
    { <<"j", "p", "g">>, <<"j", "p", "e", "g">>, <<"p", "n", "g">>, <<"w", "e", "b", "p">> }

\* isImage accepting every extension
isImageAny(file) == TRUE

\* Utils.isImage
isImage(file) == getFileExtension(file.name) \in validExtensions

\* ------------------------------------------------------------- inputs
\* The files a user may pick: a name, whether the browser can decode the
\* bytes, and the dimensions it decodes.
LandscapeFile == [name |-> <<"a", ".", "j", "p", "g">>, ok |-> TRUE, width |-> 2, height |-> 1]

PortraitFile == [name |-> <<"b", ".", "P", "N", "G">>, ok |-> TRUE, width |-> 1, height |-> 2]

SquareFile == [name |-> <<"c", ".", "w", "e", "b", "p">>, ok |-> TRUE, width |-> 1, height |-> 1]

BrokenFile == [name |-> <<"d", ".", "j", "p", "e", "g">>, ok |-> FALSE, width |-> 0, height |-> 0]

TextFile == [name |-> <<"e", ".", "t", "x", "t">>, ok |-> TRUE, width |-> 2, height |-> 1]

\* files that decode to malformed dimensions: img.width / img.height of 0
FlatFile == [name |-> <<"f", ".", "j", "p", "g">>, ok |-> TRUE, width |-> 2, height |-> 0]

ThinFile == [name |-> <<"g", ".", "j", "p", "g">>, ok |-> TRUE, width |-> 0, height |-> 2]

BlankFile == [name |-> <<"h", ".", "j", "p", "g">>, ok |-> TRUE, width |-> 0, height |-> 0]

\* what a stored record with a negative height was saved from
NegativeFile == [name |-> <<"n", ".", "j", "p", "g">>, ok |-> TRUE, width |-> 1, height |-> 0 - 1]

\* the batches of at most MaxFiles files drawn from a set of files
BatchesOf(kinds) == UNION { [1..n -> kinds] : n \in 0..MaxFiles }

\* JSON.stringify / JSON.parse of the values the program stores (records of
\* integers and strings, arrays of them): the text is kept as a tagged value
JSONstringify(data) == [json |-> data, valid |-> TRUE]

\* JSON.parse of a text that is valid; on any other text it throws
JSONparse(text) == text.json

\* a stored text JSON.parse throws on
Garbled == [json |-> <<>>, valid |-> FALSE]

\* localStorage.getItem(key) is null for a missing key
NoItem == [has |-> FALSE, text |-> [json |-> <<>>, valid |-> TRUE]]

\* Utils.saveToStorage dropping the item when setItem throws
saveToStorageClearing(store, key, data, writes) ==
    IF writes THEN [store EXCEPT ![key] = [has |-> TRUE, text |-> JSONstringify(data)]]
    ELSE [store EXCEPT ![key] = NoItem]

\* Utils.saveToStorage: setItem may throw (quota); the error is swallowed
saveToStorage(store, key, data, writes) ==
    IF writes THEN [store EXCEPT ![key] = [has |-> TRUE, text |-> JSONstringify(data)]]
    ELSE store

\* the item is there and JSON.parse takes its text
Readable(store, key) == store[key].has /\ store[key].text.valid

\* Utils.getFromStorage: the default for a missing item and, from the catch,
\* for a text JSON.parse throws on
getFromStorage(store, key, defaultValue) ==
    IF Readable(store, key) THEN JSONparse(store[key].text) ELSE defaultValue

\* Utils.saveToJSON / getFromJSON: 'x.json' is stored under key json_x
jsonKey(filename) ==
    IF filename = "wallpapers.json" THEN "json_wallpapers" ELSE "json_animation_settings"

saveToJSON(store, filename, data, writes) ==
    saveToStorage(store, jsonKey(filename), data, writes)

getFromJSON(store, filename, defaultValue) ==
    getFromStorage(store, jsonKey(filename), defaultValue)

\* ------------------------------------------------------------- state
VARIABLES
    localStorage,          \* key -> [has, text]
    heap,                  \* array slot -> sequence of wallpaper records
    wallpapers,            \* Gallery.wallpapers (slot)
    landscapeWallpapers,   \* Gallery.landscapeWallpapers (slot)
    portraitWallpapers,    \* Gallery.portraitWallpapers (slot)
    idCounter,             \* ids handed out by Utils.generateId
    currentSlideIndex,     \* Gallery.currentSlideIndex
    isPlaying,             \* Gallery.isPlaying
    slideInterval,         \* Gallery.slideInterval: a timer handle, 0 for null
    intervals,             \* handles of the setInterval timers that are running
    animationSettings,     \* Gallery.animationSettings
    currentSettings,       \* AnimationManager.currentSettings
    slides,                \* .wallpaper-slide[data-index] elements of .screen-inner
    emptySlide,            \* the empty-state placeholder slide is in .screen-inner
    pending,               \* transition cleanups waiting for their timeout (FIFO)
    galleryItems,          \* .gallery-item elements of #vertical-gallery
    navListeners,          \* times initVerticalGalleryNav has added its three listeners
    loading,               \* .loading carries 'active'
    currentIndex,          \* Lightbox.currentIndex
    currentWallpapers,     \* Lightbox.currentWallpapers (slot)
    isOpen,                \* Lightbox.isOpen
    lightboxActive,        \* #lightbox carries 'active'
    bodyOverflow,          \* document.body.style.overflow
    lightboxImage,         \* id of the record #lightbox-image shows, 0 for none
    loads,                 \* ids of the records whose preview load is in flight
    importPc,              \* handleFileImport: "idle", "dims" or "thumb"
    files,                 \* the batch handleFileImport is working on
    fileIdx,               \* position of the file being awaited
    batchStart,            \* history: length of the master list when the batch began
    saveCount,             \* history: saveWallpapers calls of the current batch
    renderCount,           \* history: renderGallery calls of the current batch
    lastOp,                \* history: the handler that ran last
    lastArg                \* history: its index or direction argument, 0 if it has none;
                           \* for a cleanup, how many cleanups have fired in a row;
                           \* for an import, the length of the batch; for an add,
                           \* the position of the file in the batch

storeVars == <<localStorage, heap, wallpapers, landscapeWallpapers, portraitWallpapers,
               idCounter>>
slideVars == <<currentSlideIndex, isPlaying, slideInterval, intervals, animationSettings,
               slides, emptySlide, pending>>
wallVars == <<galleryItems, navListeners>>
registryVars == <<currentSettings>>
lightboxVars == <<currentIndex, currentWallpapers, isOpen, lightboxActive, bodyOverflow,
                  lightboxImage, loads>>
importVars == <<importPc, files, fileIdx, batchStart, saveCount, renderCount>>

\* everything the program itself holds (no history variable)
progVars == <<storeVars, slideVars, wallVars, registryVars, lightboxVars, loading, importPc,
              files, fileIdx>>

vars == <<progVars, batchStart, saveCount, renderCount, lastOp, lastArg>>

\* history: handler op ran with argument arg
Did(op, arg) == lastOp' = op /\ lastArg' = arg

\* ------------------------------------------------------------- heap
Refs == 1..NRefs

\* a slot no live reference names
Alloc(live) == CHOOSE r \in Refs : r \notin live

\* slots nothing refers to are collected
Gc(h, live) == [r \in Refs |-> IF r \in live THEN h[r] ELSE <<>>]

\* ------------------------------------------------------------- Gallery: collection store
\* built-in defaults naming no style of the catalog
defaultSettingsNone == [landscape |-> "none", portrait |-> "none"]

defaultSettings == [landscape |-> "slide", portrait |-> "slide"]

\* { ...saved, ...defaults }: the spread the other way round
mergeSettingsDefaultsLast(defaults, saved) == defaults

\* { ...defaults, ...saved }
mergeSettings(defaults, saved) ==
    [k \in DOMAIN defaults |-> IF k \in DOMAIN saved THEN saved[k] ELSE defaults[k]]

\* Gallery.loadAnimationSettings
loadAnimationSettings(store, current) ==
    IF Readable(store, jsonKey("animation_settings.json"))
    THEN mergeSettings(current, getFromJSON(store, "animation_settings.json", current))
    ELSE current

\* AnimationManager.loadSettings
loadSettings(store, current) ==
    IF Readable(store, jsonKey("animation_settings.json"))
    THEN mergeSettings(current, getFromJSON(store, "animation_settings.json", current))
    ELSE current

\* AnimationManager.selectAnimation: the settings once the option of style id
\* is chosen for a category
selectAnimation(settings, type, id) == [settings EXCEPT ![type] = id]

\* a filter that hands the portrait records back last first
filterPortraitReversed(list) ==
    LET kept == SelectSeq(list, LAMBDA x : isPortrait(x.width, x.height))
    IN  [i \in DOMAIN kept |-> kept[Len(kept) + 1 - i]]

\* Array.prototype.filter with Utils.isLandscape / Utils.isPortrait
filterLandscape(list) == SelectSeq(list, LAMBDA x : isLandscape(x.width, x.height))

filterPortrait(list) == SelectSeq(list, LAMBDA x : isPortrait(x.width, x.height))

\* Gallery.classifyWallpapers on heap h with master list in slot w: both
\* sub-lists are new arrays, the arrays they replace are left as they were
classifyWallpapers(h, w, live) ==
    LET l == Alloc(live)
        p == Alloc(live \cup {l})
    IN  [heap |-> [h EXCEPT ![l] = filterLandscape(h[w]), ![p] = filterPortrait(h[w])],
         landscape |-> l,
         portrait |-> p]

\* Array.prototype.unshift in place of push: the record goes to the front
unshift(h, w, x) == [h EXCEPT ![w] = <<x>> \o @]

\* Array.prototype.push on the array in slot w
push(h, w, x) == [h EXCEPT ![w] = Append(@, x)]

\* ------------------------------------------------------------- Gallery: rendering
Element(img, active) ==
    [img |-> img, marks |-> IF active THEN {"active"} ELSE {}, anim |-> {}]

\* renderLandscapeSlider without the reset of the cursor
renderKeepsCursor(list, cursor) ==
    IF Len(list) = 0
    THEN [slides |-> <<>>, emptySlide |-> TRUE, currentSlideIndex |-> cursor]
    ELSE [slides |-> [i \in 1..Len(list) |-> Element(list[i].id, i = 1)],
          emptySlide |-> FALSE,
          currentSlideIndex |-> cursor]

\* Gallery.renderLandscapeSlider: the slide set, the placeholder and the cursor
renderLandscapeSlider(list, cursor) ==
    IF Len(list) = 0
    THEN [slides |-> <<>>, emptySlide |-> TRUE, currentSlideIndex |-> cursor]
    ELSE [slides |-> [i \in 1..Len(list) |-> Element(list[i].id, i = 1)],
          emptySlide |-> FALSE,
          currentSlideIndex |-> 0]

\* Gallery.renderVerticalGallery: the placeholder is a .gallery-item too
renderVerticalGallery(list) ==
    IF Len(list) = 0
    THEN << Element(0, TRUE) >>
    ELSE [i \in 1..Len(list) |-> Element(list[i].id, i = 1)]

\* Gallery.initVerticalGalleryNav, which renderVerticalGallery calls at its
\* end for a list that is not empty: one more click listener on each of the
\* two controls and one more keydown listener on the document
initVerticalGalleryNav(listeners, list) ==
    IF Len(list) = 0 THEN listeners ELSE listeners + 1

\* ------------------------------------------------------------- construction
\* new Lightbox(); new Gallery() on a page whose localStorage is store
Construct(store) ==
    LET saved == getFromJSON(store, "wallpapers.json", <<>>)
        h0 == [r \in Refs |-> IF r = 1 THEN saved ELSE <<>>]
        c == classifyWallpapers(h0, 1, {1, 2})
        r == renderLandscapeSlider(c.heap[c.landscape], 0)
    IN  [heap |-> c.heap,
         wallpapers |-> 1,
         currentWallpapers |-> 2,
         landscapeWallpapers |-> c.landscape,
         portraitWallpapers |-> c.portrait,
         idCounter |-> Len(saved),
         animationSettings |-> loadAnimationSettings(store, defaultSettings),
         slides |-> r.slides,
         emptySlide |-> r.emptySlide,
         currentSlideIndex |-> r.currentSlideIndex,
         galleryItems |-> renderVerticalGallery(c.heap[c.portrait]),
         navListeners |-> initVerticalGalleryNav(0, c.heap[c.portrait])]

EmptyStorage == [k \in {"json_wallpapers", "json_animation_settings"} |-> NoItem]

\* the state once the page's objects are constructed over localStorage = store
InitFrom(store) ==
    LET g == Construct(store)
    IN  /\ localStorage = store
        /\ heap = g.heap
        /\ wallpapers = g.wallpapers
        /\ landscapeWallpapers = g.landscapeWallpapers
        /\ portraitWallpapers = g.portraitWallpapers
        /\ idCounter = g.idCounter
        /\ currentSlideIndex = g.currentSlideIndex
        /\ isPlaying = FALSE
        /\ slideInterval = 0
        /\ intervals = {}
        /\ animationSettings = g.animationSettings
        /\ currentSettings = loadSettings(store, defaultSettings)
        /\ slides = g.slides
        /\ emptySlide = g.emptySlide
        /\ pending = <<>>
        /\ galleryItems = g.galleryItems
        /\ navListeners = g.navListeners
        /\ loading = FALSE
        /\ currentIndex = 0
        /\ currentWallpapers = g.currentWallpapers
        /\ isOpen = FALSE
        /\ lightboxActive = FALSE
        /\ bodyOverflow = ""
        /\ lightboxImage = 0
        /\ loads = {}
        /\ importPc = "idle"
        /\ files = <<>>
        /\ fileIdx = 0
        /\ batchStart = 0
        /\ saveCount = 0
        /\ renderCount = 0
        /\ lastOp = "init"
        /\ lastArg = 0

\* the first visit: nothing is stored
Init == InitFrom(EmptyStorage)

\* the records an earlier session has saved for a list of files
SavedRecords(fs) ==
    [i \in DOMAIN fs |->
        [id |-> i, name |-> fs[i].name, width |-> fs[i].width, height |-> fs[i].height]]

\* the collections an earlier session may have saved
StoredCollections(kinds) ==
    { SavedRecords(fs) : fs \in UNION { [1..n -> kinds] : n \in 0..MaxWallpapers } }

\* a later visit: an earlier session has saved a collection
InitStored(kinds) ==
    \E c \in StoredCollections(kinds) :
        InitFrom(saveToJSON(EmptyStorage, "wallpapers.json", c, TRUE))

\* the page is loaded again: every object is constructed anew from localStorage
PageLoad ==
    LET g == Construct(localStorage)
    IN  /\ importPc = "idle"
        /\ heap' = g.heap
        /\ wallpapers' = g.wallpapers
        /\ landscapeWallpapers' = g.landscapeWallpapers
        /\ portraitWallpapers' = g.portraitWallpapers
        /\ idCounter' = g.idCounter
        /\ currentSlideIndex' = g.currentSlideIndex
        /\ isPlaying' = FALSE
        /\ slideInterval' = 0
        /\ intervals' = {}
        /\ animationSettings' = g.animationSettings
        /\ slides' = g.slides
        /\ emptySlide' = g.emptySlide
        /\ pending' = <<>>
        /\ galleryItems' = g.galleryItems
        /\ navListeners' = g.navListeners
        /\ loading' = FALSE
        /\ currentIndex' = 0
        /\ currentWallpapers' = g.currentWallpapers
        /\ isOpen' = FALSE
        /\ lightboxActive' = FALSE
        /\ bodyOverflow' = ""
        /\ lightboxImage' = 0
        /\ loads' = {}
        /\ files' = <<>>
        /\ fileIdx' = 0
        /\ batchStart' = 0
        /\ saveCount' = 0
        /\ renderCount' = 0
        /\ Did("load", 0)
        /\ UNCHANGED <<localStorage, importPc, registryVars>>

\* ------------------------------------------------------------- Gallery: import
Live == {wallpapers, landscapeWallpapers, portraitWallpapers, currentWallpapers}

\* position of the first file after position i that passes Utils.isImage, 0 if none
NextImage(fs, i) ==
    IF \E j \in DOMAIN fs : j > i /\ isImage(fs[j])
    THEN CHOOSE j \in DOMAIN fs :
            /\ j > i
            /\ isImage(fs[j])
            /\ \A k \in DOMAIN fs : (k > i /\ isImage(fs[k])) => j <= k
    ELSE 0

\* files of a batch that will be appended if every one is attempted
Addable(fs) == {j \in DOMAIN fs : isImage(fs[j]) /\ fs[j].ok}

\* a loop that persists and renders after every file instead of after the batch
ImportLoopSavingEach(fs, i, master, land, port, ld, saves, renders) ==
    LET j == NextImage(fs, i)
        rs == renderLandscapeSlider(land, currentSlideIndex)
    IN  /\ importPc' = IF j # 0 THEN "dims" ELSE "idle"
        /\ fileIdx' = j
        /\ files' = IF j # 0 THEN fs ELSE <<>>
        /\ \E writes \in BOOLEAN :
               localStorage' = saveToJSON(localStorage, "wallpapers.json", master, writes)
        /\ slides' = rs.slides
        /\ emptySlide' = rs.emptySlide
        /\ currentSlideIndex' = rs.currentSlideIndex
        /\ pending' = <<>>
        /\ galleryItems' = renderVerticalGallery(port)
        /\ navListeners' = initVerticalGalleryNav(navListeners, port)
        /\ saveCount' = saves + 1
        /\ renderCount' = renders + 1
        /\ loading' = IF j # 0 THEN ld ELSE FALSE

\* The for loop of handleFileImport, resumed after the file at position i,
\* with the master and landscape / portrait lists as given: it runs to the
\* next await (the next file isImage accepts), or past the last file to
\* saveWallpapers, renderGallery and the finally block.  saves and renders
\* count the batch's calls so far.
ImportLoop(fs, i, master, land, port, ld, saves, renders) ==
    LET j == NextImage(fs, i)
        rs == renderLandscapeSlider(land, currentSlideIndex)
    IN  IF j # 0
        THEN /\ importPc' = "dims"
             /\ fileIdx' = j
             /\ files' = fs
             /\ loading' = ld
             /\ saveCount' = saves
             /\ renderCount' = renders
             /\ UNCHANGED <<localStorage, slides, emptySlide, currentSlideIndex, pending,
                            galleryItems, navListeners>>
        ELSE /\ importPc' = "idle"
             /\ fileIdx' = 0
             /\ files' = <<>>
             /\ \E writes \in BOOLEAN :
                    localStorage' = saveToJSON(localStorage, "wallpapers.json", master, writes)
             /\ slides' = rs.slides
             /\ emptySlide' = rs.emptySlide
             /\ currentSlideIndex' = rs.currentSlideIndex
             /\ pending' = <<>>
             /\ galleryItems' = renderVerticalGallery(port)
             /\ navListeners' = initVerticalGalleryNav(navListeners, port)
             /\ saveCount' = saves + 1
             /\ renderCount' = renders + 1
             /\ loading' = FALSE

\* 'change' on #file-input: Gallery.handleFileImport up to its first await
handleFileImport(fs) ==
    /\ importPc = "idle"
    /\ navListeners < MaxListeners
    /\ Len(heap[wallpapers]) + Cardinality(Addable(fs)) <= MaxWallpapers
    /\ Did("import", Len(fs))
    /\ UNCHANGED <<heap, wallpapers, landscapeWallpapers, portraitWallpapers, idCounter,
                   isPlaying, slideInterval, intervals, animationSettings, registryVars,
                   lightboxVars>>
    /\ IF Len(fs) = 0
       THEN UNCHANGED <<localStorage, slides, emptySlide, currentSlideIndex, pending,
                        galleryItems, navListeners, loading, importVars>>
       ELSE /\ batchStart' = Len(heap[wallpapers])
            /\ ImportLoop(fs, 0, heap[wallpapers], heap[landscapeWallpapers],
                          heap[portraitWallpapers], TRUE, 0, 0)

\* Gallery.addWallpaper, first await: Utils.getImageDimensions settles.  On
\* a rejection addWallpaper rethrows, the catch of handleFileImport logs and
\* its finally block hides the loading indicator: the loop is left.
getImageDimensions ==
    /\ importPc = "dims"
    /\ IF files[fileIdx].ok
       THEN /\ importPc' = "thumb"
            /\ Did("dims", 0)
            /\ UNCHANGED <<files, fileIdx, loading>>
       ELSE /\ importPc' = "idle"
            /\ files' = <<>>
            /\ fileIdx' = 0
            /\ loading' = FALSE
            /\ Did("importFailed", 0)
    /\ UNCHANGED <<storeVars, slideVars, wallVars, registryVars, lightboxVars, batchStart,
                   saveCount, renderCount>>

\* the record addWallpaper builds for the file at position i
Wallpaper(fs, i, id) ==
    [id |-> id, name |-> fs[i].name, width |-> fs[i].width, height |-> fs[i].height]

\* Gallery.addWallpaper, second await: Utils.generateThumbnail resolves; the
\* record is pushed, the lists are classified and the loop goes on
addWallpaper ==
    /\ importPc = "thumb"
    /\ LET h1 == push(heap, wallpapers, Wallpaper(files, fileIdx, idCounter + 1))
           c == classifyWallpapers(h1, wallpapers, Live)
       IN  /\ heap' = Gc(c.heap, {wallpapers, c.landscape, c.portrait, currentWallpapers})
           /\ landscapeWallpapers' = c.landscape
           /\ portraitWallpapers' = c.portrait
           /\ ImportLoop(files, fileIdx, c.heap[wallpapers], c.heap[c.landscape],
                         c.heap[c.portrait], loading, saveCount, renderCount)
    /\ idCounter' = idCounter + 1
    /\ Did("add", fileIdx)
    /\ UNCHANGED <<wallpapers, isPlaying, slideInterval, intervals, animationSettings,
                   registryVars, lightboxVars, batchStart>>

\* ------------------------------------------------------------- Gallery: slideshow
\* the % of JavaScript: the remainder has the sign of the dividend
rem(a, b) == IF a >= 0 THEN a % b ELSE 0 - ((0 - a) % b)

\* Utils.$('.wallpaper-slide[data-index="index"]'): position in slides, 0 for null
querySlide(sl, index) == IF index + 1 \in DOMAIN sl THEN index + 1 ELSE 0

addClass(sl, i, c) == [sl EXCEPT ![i].marks = @ \cup {c}]

removeClass(sl, i, c) == [sl EXCEPT ![i].marks = @ \ {c}]

removeAnimations(sl, i) == [sl EXCEPT ![i].anim = @ \ Catalog]

addAnimation(sl, i, type) == [sl EXCEPT ![i].anim = @ \cup {type}]

\* transitionSlides that leaves the active class on the outgoing slide
transitionSlidesKeepsActive(sl, cur, nxt, direction, type) ==
    IF cur = 0 \/ nxt = 0 THEN sl
    ELSE LET s1 == removeAnimations(sl, cur)
             s2 == removeAnimations(s1, nxt)
             s3 == addAnimation(s2, cur, type)
             s4 == addAnimation(s3, nxt, type)
             s5 == addClass(s4, nxt, direction)
             s6 == addClass(s5, nxt, "active")
             s8 == addClass(s6, cur, IF direction = "prev" THEN "next" ELSE "prev")
         IN  removeClass(s8, nxt, direction)

\* Gallery.transitionSlides up to (not including) the setTimeout: the class
\* changes in the order the code makes them
transitionSlides(sl, cur, nxt, direction, type) ==
    IF cur = 0 \/ nxt = 0 THEN sl
    ELSE LET s1 == removeAnimations(sl, cur)
             s2 == removeAnimations(s1, nxt)
             s3 == addAnimation(s2, cur, type)
             s4 == addAnimation(s3, nxt, type)
             s5 == addClass(s4, nxt, direction)
             s6 == addClass(s5, nxt, "active")
             s7 == removeClass(s6, cur, "active")
             s8 == addClass(s7, cur, IF direction = "prev" THEN "next" ELSE "prev")
         IN  removeClass(s8, nxt, direction)

\* a setTimeout whose callback clears the incoming slide instead
scheduleCleanupOfNext(q, cur, nxt) == IF cur = 0 \/ nxt = 0 THEN q ELSE Append(q, nxt)

\* the cleanups pending once transitionSlides has run
scheduleCleanup(q, cur, nxt) == IF cur = 0 \/ nxt = 0 THEN q ELSE Append(q, cur)

\* nextIndex without the wraparound
nextIndexNoWrap(index, length) == index + 1

nextIndex(index, length) == rem(index + 1, length)

\* prevIndex without the + length that keeps the dividend positive
prevIndexNoAdd(index, length) == rem(index - 1, length)

prevIndex(index, length) == rem(index - 1 + length, length)

\* the body shared by Gallery.nextSlide and Gallery.prevSlide
Slide(newIndex, direction) ==
    LET cur == querySlide(slides, currentSlideIndex)
        nxt == querySlide(slides, newIndex)
    IN  /\ currentSlideIndex' = newIndex
        /\ slides' = transitionSlides(slides, cur, nxt, direction, animationSettings.landscape)
        /\ pending' = scheduleCleanup(pending, cur, nxt)

\* Gallery.nextSlide
nextSlideBody ==
    IF Len(heap[landscapeWallpapers]) = 0
    THEN UNCHANGED <<currentSlideIndex, slides, pending>>
    ELSE Slide(nextIndex(currentSlideIndex, Len(heap[landscapeWallpapers])), "next")

\* Gallery.prevSlide
prevSlideBody ==
    IF Len(heap[landscapeWallpapers]) = 0
    THEN UNCHANGED <<currentSlideIndex, slides, pending>>
    ELSE Slide(prevIndex(currentSlideIndex, Len(heap[landscapeWallpapers])), "prev")

slideFrame ==
    UNCHANGED <<storeVars, isPlaying, slideInterval, intervals, animationSettings, emptySlide,
                wallVars, registryVars, lightboxVars, loading, importVars>>

\* click on .next-btn
nextSlide ==
    /\ Len(pending) < MaxPending
    /\ nextSlideBody
    /\ Did("nextSlide", 0)
    /\ slideFrame

\* click on .prev-btn
prevSlide ==
    /\ Len(pending) < MaxPending
    /\ prevSlideBody
    /\ Did("prevSlide", 0)
    /\ slideFrame

\* the setInterval callback of startSlideShow fires
tick ==
    /\ intervals # {}
    /\ Len(pending) < MaxPending
    /\ nextSlideBody
    /\ Did("tick", 0)
    /\ slideFrame

\* the setTimeout callback of transitionSlides fires (equal delays: in order)
cleanup ==
    /\ pending # <<>>
    /\ slides' = [slides EXCEPT ![Head(pending)].marks = @ \ {"prev", "next"}]
    /\ pending' = Tail(pending)
    /\ Did("cleanup", IF lastOp = "cleanup" THEN lastArg + 1 ELSE 1)
    /\ UNCHANGED currentSlideIndex
    /\ slideFrame

\* startSlideShow without its "already running" early return
startSlideShowUnguarded(handle, running) ==
    LET h == CHOOSE h \in 1..(Cardinality(running) + 1) : h \notin running
    IN  [slideInterval |-> h, intervals |-> running \cup {h}]

\* stopSlideShow that clears the timer and keeps the handle
stopSlideShowKeepsHandle(handle, running) ==
    [slideInterval |-> handle, intervals |-> running \ {handle}]

\* setInterval: a handle no running timer has
setInterval(running) == CHOOSE h \in 1..(Cardinality(running) + 1) : h \notin running

\* Gallery.startSlideShow: the handle and the running timers afterwards
startSlideShow(handle, running) ==
    IF handle # 0 THEN [slideInterval |-> handle, intervals |-> running]
    ELSE [slideInterval |-> setInterval(running),
          intervals |-> running \cup {setInterval(running)}]

\* Gallery.stopSlideShow
stopSlideShow(handle, running) ==
    IF handle # 0 THEN [slideInterval |-> 0, intervals |-> running \ {handle}]
    ELSE [slideInterval |-> handle, intervals |-> running]

playFrame ==
    UNCHANGED <<storeVars, currentSlideIndex, animationSettings, slides, emptySlide, pending,
                wallVars, registryVars, lightboxVars, loading, importVars>>

\* click on .play-btn or the space key: Gallery.togglePlay (.play-btn exists)
togglePlay ==
    LET t == IF ~isPlaying THEN startSlideShow(slideInterval, intervals)
             ELSE stopSlideShow(slideInterval, intervals)
    IN  /\ isPlaying' = ~isPlaying
        /\ slideInterval' = t.slideInterval
        /\ intervals' = t.intervals
        /\ Did("togglePlay", 0)
        /\ playFrame

\* a direct call of gallery.startSlideShow()
callStartSlideShow ==
    LET t == startSlideShow(slideInterval, intervals)
    IN  /\ slideInterval' = t.slideInterval
        /\ intervals' = t.intervals
        /\ Did("start", 0)
        /\ UNCHANGED isPlaying
        /\ playFrame

\* a direct call of gallery.stopSlideShow()
callStopSlideShow ==
    LET t == stopSlideShow(slideInterval, intervals)
    IN  /\ slideInterval' = t.slideInterval
        /\ intervals' = t.intervals
        /\ Did("stop", 0)
        /\ UNCHANGED isPlaying
        /\ playFrame

\* ------------------------------------------------------------- Gallery: poster wall
\* the forEach of navigateVerticalGallery: the last item carrying 'active',
\* counted from 0, and 0 when none does
activeItem(items) ==
    IF \E i \in DOMAIN items : "active" \in items[i].marks
    THEN (CHOOSE i \in DOMAIN items :
            /\ "active" \in items[i].marks
            /\ \A k \in DOMAIN items : "active" \in items[k].marks => k <= i) - 1
    ELSE 0

\* the new index navigateVerticalGallery computes
wallIndex(current, direction, length) ==
    IF current + direction < 0 THEN length - 1
    ELSE IF current + direction >= length THEN 0
    ELSE current + direction

\* the band updateVerticalGalleryItems gives the item at index (from 0)
band(index, activeIndex, length) ==
    IF index = activeIndex THEN {"active"}
    ELSE IF index = rem(activeIndex - 1 + length, length) THEN {"prev"}
    ELSE IF index = rem(activeIndex + 1, length) THEN {"next"}
    ELSE {}

\* Gallery.updateVerticalGalleryItems
updateVerticalGalleryItems(items, activeIndex, type) ==
    [i \in DOMAIN items |->
        [items[i] EXCEPT !.marks = band(i - 1, activeIndex, Len(items)),
                         !.anim = (@ \ Catalog) \cup {type}]]

\* navigateVerticalGallery without its empty-list return
navigateUnguarded(direction) ==
    /\ galleryItems' =
            updateVerticalGalleryItems(
                galleryItems,
                IF activeItem(galleryItems) + direction < 0 THEN Len(galleryItems) - 1
                ELSE IF activeItem(galleryItems) + direction >= Len(galleryItems) THEN 0
                ELSE activeItem(galleryItems) + direction,
                animationSettings.portrait)
    /\ Did("navigate", direction)
    /\ UNCHANGED <<storeVars, slideVars, navListeners, registryVars, lightboxVars, loading,
                   importVars>>

\* Gallery.navigateVerticalGallery(direction)
navigateVerticalGallery(direction) ==
    /\ IF Len(heap[portraitWallpapers]) = 0 \/ Len(galleryItems) = 0
       THEN UNCHANGED galleryItems
       ELSE galleryItems' =
                updateVerticalGalleryItems(
                    galleryItems,
                    wallIndex(activeItem(galleryItems), direction, Len(galleryItems)),
                    animationSettings.portrait)
    /\ Did("navigate", direction)
    /\ UNCHANGED <<storeVars, slideVars, navListeners, registryVars, lightboxVars, loading,
                   importVars>>

\* the items after calls of navigateVerticalGallery(direction) by the first
\* n listeners, one after the other
RECURSIVE navigateTimes(_, _, _, _, _)
navigateTimes(items, list, direction, type, n) ==
    IF n = 0 THEN items
    ELSE LET before == navigateTimes(items, list, direction, type, n - 1)
         IN  IF Len(list) = 0 \/ Len(before) = 0 THEN before
             ELSE updateVerticalGalleryItems(
                      before, wallIndex(activeItem(before), direction, Len(before)), type)

\* the frame of an event of the wall
wallFrame ==
    UNCHANGED <<storeVars, slideVars, navListeners, registryVars, lightboxVars, loading,
                importVars>>

\* 'click' on .gallery-nav-prev (direction -1) or .gallery-nav-next (1): every
\* click listener initVerticalGalleryNav has added runs, none is ever removed
clickWallNav(direction) ==
    /\ galleryItems' = navigateTimes(galleryItems, heap[portraitWallpapers], direction,
                                     animationSettings.portrait, navListeners)
    /\ Did("wallClick", direction)
    /\ wallFrame

\* the keys of the wall's keydown listeners
WallKeys == {"ArrowUp", "ArrowDown"}

WallKeyDirection(key) == IF key = "ArrowUp" THEN 0 - 1 ELSE 1

\* 'keydown' of ArrowUp / ArrowDown on the document: Lightbox.handleKeyboard
\* and Gallery.handleKeyboardNavigation have no case for these keys; every
\* keydown listener of the wall runs
WallKeyDown(key) ==
    /\ galleryItems' = navigateTimes(galleryItems, heap[portraitWallpapers],
                                     WallKeyDirection(key), animationSettings.portrait,
                                     navListeners)
    /\ Did("wallKey", WallKeyDirection(key))
    /\ wallFrame

\* ------------------------------------------------------------- Lightbox
Max(a, b) == IF a > b THEN a ELSE b

Min(a, b) == IF a < b THEN a ELSE b

\* openLightbox without its clamp
rawIndex(index, length) == index

\* the index Gallery.openLightbox puts in the event
validIndex(index, length) == Max(0, Min(index, length - 1))

\* Lightbox.loadImage: the loads in flight and the loading indicator afterwards
loadImage(list, index, inFlight, ld) ==
    IF Len(list) = 0 \/ index + 1 \notin DOMAIN list
    THEN [loads |-> inFlight, loading |-> ld]
    ELSE [loads |-> inFlight \cup {list[index + 1].id}, loading |-> TRUE]

\* openLightbox handing over the master list
listOfMaster(type) == wallpapers

\* the array Gallery.openLightbox hands over for a type
listOf(type) == IF type = "landscape" THEN landscapeWallpapers ELSE portraitWallpapers

\* Gallery.openLightbox(index, type) and, for a list that is not empty, the
\* Lightbox.open its 'openLightbox' event runs
openLightbox(index, type) ==
    LET ref == listOf(type)
        list == heap[ref]
        at == validIndex(index, Len(list))
        ld == loadImage(list, at, loads, loading)
    IN  /\ Did(IF type = "landscape" THEN "openLandscape" ELSE "openPortrait", index)
        /\ UNCHANGED <<localStorage, wallpapers, landscapeWallpapers, portraitWallpapers,
                       idCounter, slideVars, wallVars, registryVars, lightboxImage,
                       importVars>>
        /\ IF Len(list) = 0
           THEN UNCHANGED <<heap, currentIndex, currentWallpapers, isOpen, lightboxActive,
                            bodyOverflow, loads, loading>>
           ELSE /\ currentIndex' = at
                /\ currentWallpapers' = ref
                /\ heap' = Gc(heap, {wallpapers, landscapeWallpapers, portraitWallpapers, ref})
                /\ lightboxActive' = TRUE
                /\ isOpen' = TRUE
                /\ loads' = ld.loads
                /\ loading' = ld.loading
                /\ bodyOverflow' = "hidden"

\* Lightbox.close that leaves the page's scroll suspended
closeKeepsScroll ==
    /\ IF ~isOpen
       THEN UNCHANGED <<lightboxActive, isOpen>>
       ELSE /\ lightboxActive' = FALSE
            /\ isOpen' = FALSE
    /\ Did("close", 0)
    /\ UNCHANGED <<storeVars, slideVars, wallVars, registryVars, currentIndex,
                   currentWallpapers, bodyOverflow, lightboxImage, loads, loading, importVars>>

\* Lightbox.close
close ==
    /\ IF ~isOpen
       THEN UNCHANGED <<lightboxActive, isOpen, bodyOverflow>>
       ELSE /\ lightboxActive' = FALSE
            /\ isOpen' = FALSE
            /\ bodyOverflow' = ""
    /\ Did("close", 0)
    /\ UNCHANGED <<storeVars, slideVars, wallVars, registryVars, currentIndex,
                   currentWallpapers, lightboxImage, loads, loading, importVars>>

\* the cursor Lightbox.next / Lightbox.prev move to
lightboxNextIndex(index, length) ==
    IF length <= 1 THEN index ELSE rem(index + 1, length)

lightboxPrevIndex(index, length) ==
    IF length <= 1 THEN index ELSE rem(index - 1 + length, length)

\* the body shared by Lightbox.next and Lightbox.prev
Browse(newIndex) ==
    LET list == heap[currentWallpapers]
        ld == loadImage(list, newIndex, loads, loading)
    IN  /\ currentIndex' = newIndex
        /\ IF Len(list) <= 1
           THEN UNCHANGED <<loads, loading>>
           ELSE loads' = ld.loads /\ loading' = ld.loading
        /\ UNCHANGED <<storeVars, slideVars, wallVars, registryVars, currentWallpapers, isOpen,
                       lightboxActive, bodyOverflow, lightboxImage, importVars>>

\* Lightbox.next
next ==
    /\ Browse(lightboxNextIndex(currentIndex, Len(heap[currentWallpapers])))
    /\ Did("next", 0)

\* Lightbox.prev
prev ==
    /\ Browse(lightboxPrevIndex(currentIndex, Len(heap[currentWallpapers])))
    /\ Did("prev", 0)

\* img.onerror showing the image that failed to load
imageLoadedShowsAlways(id, success) ==
    /\ id \in loads
    /\ loads' = loads \ {id}
    /\ lightboxImage' = id
    /\ loading' = FALSE
    /\ Did(IF success THEN "imageLoaded" ELSE "imageError", 0)
    /\ UNCHANGED <<storeVars, slideVars, wallVars, registryVars, currentIndex,
                   currentWallpapers, isOpen, lightboxActive, bodyOverflow, importVars>>

\* img.onload / img.onerror of a preview load started by Lightbox.loadImage
imageLoaded(id, success) ==
    /\ id \in loads
    /\ loads' = loads \ {id}
    /\ lightboxImage' = IF success THEN id ELSE lightboxImage
    /\ loading' = FALSE
    /\ Did(IF success THEN "imageLoaded" ELSE "imageError", 0)
    /\ UNCHANGED <<storeVars, slideVars, wallVars, registryVars, currentIndex,
                   currentWallpapers, isOpen, lightboxActive, bodyOverflow, importVars>>

\* ------------------------------------------------------------- AnimationManager
\* the style identifiers in the order AnimationManager.animations lists them
styleOrder == <<"fade", "slide", "zoom", "rotate", "flip", "cube", "bounce", "wave">>

\* position of a style in that order
StyleNo(id) == CHOOSE n \in DOMAIN styleOrder : styleOrder[n] = id

managerFrame ==
    UNCHANGED <<heap, wallpapers, landscapeWallpapers, portraitWallpapers, idCounter, slideVars,
                wallVars, lightboxVars, loading, importVars>>

\* DOMContentLoaded on the page of the animation settings: new AnimationManager()
newAnimationManager ==
    /\ currentSettings' = loadSettings(localStorage, defaultSettings)
    /\ Did("loadSettings", 0)
    /\ UNCHANGED localStorage
    /\ managerFrame

\* a click on an option that also persists the selection
clickOptionPersisting(type, id) ==
    /\ currentSettings' = selectAnimation(currentSettings, type, id)
    /\ Did(IF type = "landscape" THEN "selectLandscape" ELSE "selectPortrait", StyleNo(id))
    /\ localStorage' =
          saveToJSON(localStorage, "animation_settings.json", currentSettings', TRUE)
    /\ managerFrame

\* click on the option of style id in #landscape-animations / #portrait-animations
clickOption(type, id) ==
    /\ currentSettings' = selectAnimation(currentSettings, type, id)
    /\ Did(IF type = "landscape" THEN "selectLandscape" ELSE "selectPortrait", StyleNo(id))
    /\ UNCHANGED localStorage
    /\ managerFrame

\* click on #save-animations: AnimationManager.saveSettings; the storage may
\* refuse the write
saveSettings ==
    /\ \E writes \in BOOLEAN :
          /\ localStorage' =
                saveToJSON(localStorage, "animation_settings.json", currentSettings, writes)
          /\ Did(IF writes THEN "saveSettings" ELSE "saveSettingsRefused", 0)
    /\ UNCHANGED currentSettings
    /\ managerFrame

\* another writer of the origin's localStorage leaves under key a text that
\* is not JSON
garble(key) ==
    /\ localStorage' = [localStorage EXCEPT ![key] = [has |-> TRUE, text |-> Garbled]]
    /\ Did("garble", IF key = "json_wallpapers" THEN 1 ELSE 2)
    /\ UNCHANGED currentSettings
    /\ managerFrame

\* ------------------------------------------------------------- keyboard
\* the keys the Lightbox's and the Gallery's keydown listeners take
Keys == {"Escape", "ArrowLeft", "ArrowRight", " "}

KeyOp(key) ==
    CASE key = "Escape" -> "keyEscape"
      [] key = "ArrowLeft" -> "keyArrowLeft"
      [] key = "ArrowRight" -> "keyArrowRight"
      [] OTHER -> "keySpace"

\* Lightbox.handleKeyboard without its isOpen test
handleKeyboardAlways(key) ==
    LET list == heap[currentWallpapers]
        newIndex == IF key = "ArrowLeft" THEN lightboxPrevIndex(currentIndex, Len(list))
                    ELSE lightboxNextIndex(currentIndex, Len(list))
        ld == loadImage(list, newIndex, loads, loading)
    IN  IF key = "Escape"
        THEN /\ lightboxActive' = FALSE
             /\ isOpen' = FALSE
             /\ bodyOverflow' = ""
             /\ UNCHANGED <<currentIndex, loads, loading>>
        ELSE IF key \in {"ArrowLeft", "ArrowRight"}
        THEN /\ currentIndex' = newIndex
             /\ IF Len(list) <= 1
                THEN UNCHANGED <<loads, loading>>
                ELSE loads' = ld.loads /\ loading' = ld.loading
             /\ UNCHANGED <<isOpen, lightboxActive, bodyOverflow>>
        ELSE UNCHANGED <<currentIndex, isOpen, lightboxActive, bodyOverflow, loads, loading>>

\* Lightbox.handleKeyboard: close, prev or next, on an open overlay only
handleKeyboard(key) ==
    LET list == heap[currentWallpapers]
        newIndex == IF key = "ArrowLeft" THEN lightboxPrevIndex(currentIndex, Len(list))
                    ELSE lightboxNextIndex(currentIndex, Len(list))
        ld == loadImage(list, newIndex, loads, loading)
    IN  IF ~isOpen
        THEN UNCHANGED <<currentIndex, isOpen, lightboxActive, bodyOverflow, loads, loading>>
        ELSE IF key = "Escape"
        THEN /\ lightboxActive' = FALSE
             /\ isOpen' = FALSE
             /\ bodyOverflow' = ""
             /\ UNCHANGED <<currentIndex, loads, loading>>
        ELSE IF key \in {"ArrowLeft", "ArrowRight"}
        THEN /\ currentIndex' = newIndex
             /\ IF Len(list) <= 1
                THEN UNCHANGED <<loads, loading>>
                ELSE loads' = ld.loads /\ loading' = ld.loading
             /\ UNCHANGED <<isOpen, lightboxActive, bodyOverflow>>
        ELSE UNCHANGED <<currentIndex, isOpen, lightboxActive, bodyOverflow, loads, loading>>

\* Gallery.handleKeyboardNavigation: prevSlide, nextSlide or togglePlay
handleKeyboardNavigation(key) ==
    LET t == IF ~isPlaying THEN startSlideShow(slideInterval, intervals)
             ELSE stopSlideShow(slideInterval, intervals)
    IN  IF key = "ArrowLeft"
        THEN prevSlideBody /\ UNCHANGED <<isPlaying, slideInterval, intervals>>
        ELSE IF key = "ArrowRight"
        THEN nextSlideBody /\ UNCHANGED <<isPlaying, slideInterval, intervals>>
        ELSE IF key = " "
        THEN /\ isPlaying' = ~isPlaying
             /\ slideInterval' = t.slideInterval
             /\ intervals' = t.intervals
             /\ UNCHANGED <<currentSlideIndex, slides, pending>>
        ELSE UNCHANGED <<currentSlideIndex, slides, pending, isPlaying, slideInterval,
                         intervals>>

\* 'keydown' on document: the Lightbox's listener, registered first, then the
\* Gallery's
KeyDown(key) ==
    /\ key \in {"ArrowLeft", "ArrowRight"} => Len(pending) < MaxPending
    /\ handleKeyboard(key)
    /\ handleKeyboardNavigation(key)
    /\ Did(KeyOp(key), 0)
    /\ UNCHANGED <<storeVars, animationSettings, emptySlide, wallVars, registryVars,
                   currentWallpapers, lightboxImage, importVars>>

\* ------------------------------------------------------------- specifications
\* indexes an open request may carry: below, inside and beyond any list
Indexes == (0 - 1)..MaxWallpapers

Directions == {0 - 1, 1}

Types == {"landscape", "portrait"}

\* batches of exactly one file
Singles(kinds) == { fs \in BatchesOf(kinds) : Len(fs) = 1 }

\* stored collections whose landscape records come first
LandscapeFirst ==
    { c \in StoredCollections({LandscapeFile, PortraitFile}) :
        \A i \in DOMAIN c : \A j \in DOMAIN c :
            (i < j /\ isLandscape(c[j].width, c[j].height))
                => isLandscape(c[i].width, c[i].height) }

\* The whole page: every handler, every file.
Next ==
    \/ PageLoad
    \/ \E fs \in BatchesOf({LandscapeFile, PortraitFile, SquareFile, BrokenFile, TextFile}) :
            handleFileImport(fs)
    \/ getImageDimensions
    \/ addWallpaper
    \/ nextSlide
    \/ prevSlide
    \/ tick
    \/ cleanup
    \/ togglePlay
    \/ \E d \in Directions : navigateVerticalGallery(d)
    \/ \E i \in Indexes, t \in Types : openLightbox(i, t)
    \/ close
    \/ next
    \/ prev
    \/ \E id \in loads, ok \in BOOLEAN : imageLoaded(id, ok)

Spec == Init /\ [][Next]_vars

\* The import boundary: batches with files that are skipped, fail and decode.
NextImport ==
    \/ PageLoad
    \/ \E fs \in BatchesOf({LandscapeFile, BrokenFile, TextFile}) : handleFileImport(fs)
    \/ getImageDimensions
    \/ addWallpaper

SpecImport == Init /\ [][NextImport]_vars

\* Classification: batches of files that decode, of every shape.
NextClassify ==
    \/ PageLoad
    \/ \E fs \in BatchesOf({LandscapeFile, PortraitFile, SquareFile}) : handleFileImport(fs)
    \/ getImageDimensions
    \/ addWallpaper

SpecClassify == Init /\ [][NextClassify]_vars

\* The overlay while the collection grows.
NextPin ==
    \/ \E fs \in Singles({LandscapeFile, PortraitFile}) : handleFileImport(fs)
    \/ getImageDimensions
    \/ addWallpaper
    \/ \E i \in Indexes, t \in Types : openLightbox(i, t)
    \/ close
    \/ next
    \/ prev

SpecPin == Init /\ [][NextPin]_vars

\* The three navigators over a collection an earlier session has saved.
NextNav ==
    \/ nextSlide
    \/ prevSlide
    \/ cleanup
    \/ \E d \in Directions : navigateVerticalGallery(d)
    \/ \E i \in Indexes, t \in Types : openLightbox(i, t)
    \/ close
    \/ next
    \/ prev

InitNav ==
    \E c \in LandscapeFirst : InitFrom(saveToJSON(EmptyStorage, "wallpapers.json", c, TRUE))

SpecNav == InitNav /\ [][NextNav]_vars

\* The slideshow: navigation, auto-advance, cleanups and renders.
NextSlides ==
    \/ PageLoad
    \/ \E fs \in Singles({LandscapeFile, PortraitFile}) : handleFileImport(fs)
    \/ getImageDimensions
    \/ addWallpaper
    \/ nextSlide
    \/ prevSlide
    \/ tick
    \/ cleanup
    \/ togglePlay

SpecSlides == Init /\ [][NextSlides]_vars

\* The slideshow with startSlideShow and stopSlideShow called directly.
NextApi ==
    \/ NextSlides
    \/ callStartSlideShow
    \/ callStopSlideShow

SpecApi == Init /\ [][NextApi]_vars

\* The keyboard over a collection an earlier session has saved.
NextKeys ==
    \/ \E key \in Keys : KeyDown(key)
    \/ \E i \in Indexes, t \in Types : openLightbox(i, t)
    \/ cleanup

SpecKeys == InitNav /\ [][NextKeys]_vars

\* the styles chosen on the settings page
Styles == {"slide", "zoom", "wave"}

\* The settings page and the gallery page over one localStorage.
NextSettings ==
    \/ newAnimationManager
    \/ \E type \in Types, id \in Styles : clickOption(type, id)
    \/ saveSettings
    \/ PageLoad

SpecSettings == Init /\ [][NextSettings]_vars

\* The settings page offering every style of AnimationManager.animations for
\* the landscape category, and the gallery page, over one localStorage.
NextCatalog ==
    \/ newAnimationManager
    \/ \E n \in DOMAIN styleOrder : clickOption("landscape", styleOrder[n])
    \/ \E id \in Styles : clickOption("portrait", id)
    \/ saveSettings
    \/ PageLoad

SpecCatalog == Init /\ [][NextCatalog]_vars

\* The two keys of the storage: written by both pages, refused writes, texts
\* that do not parse, and the loads that read them.
NextStorage ==
    \/ newAnimationManager
    \/ \E type \in Types : clickOption(type, "zoom")
    \/ saveSettings
    \/ PageLoad
    \/ \E fs \in Singles({LandscapeFile}) : handleFileImport(fs)
    \/ getImageDimensions
    \/ addWallpaper
    \/ \E key \in DOMAIN localStorage : garble(key)

SpecStorage == Init /\ [][NextStorage]_vars

\* The slideshow navigated while a batch of several landscape files is being
\* imported: the navigation runs whenever the batch awaits a decode.
NextInterleave ==
    \/ \E fs \in BatchesOf({LandscapeFile}) : Len(fs) >= 1 /\ handleFileImport(fs)
    \/ getImageDimensions
    \/ addWallpaper
    \/ nextSlide
    \/ prevSlide
    \/ tick
    \/ togglePlay
    \/ cleanup

SpecInterleave == Init /\ [][NextInterleave]_vars

\* The poster wall's controls and keys after startup and imports.
NextWall ==
    \/ PageLoad
    \/ \E fs \in Singles({LandscapeFile, PortraitFile}) : handleFileImport(fs)
    \/ getImageDimensions
    \/ addWallpaper
    \/ \E d \in Directions : clickWallNav(d)
    \/ \E key \in WallKeys : WallKeyDown(key)

SpecWall == Init /\ [][NextWall]_vars

\* The overlay and its preview loads, which complete or fail in any order.
NextLoads ==
    \/ \E i \in Indexes, t \in Types : openLightbox(i, t)
    \/ close
    \/ next
    \/ prev
    \/ \E id \in loads, ok \in BOOLEAN : imageLoaded(id, ok)

SpecLoads == InitNav /\ [][NextLoads]_vars

\* The overlay when every preview load succeeds.
NextShows ==
    \/ \E i \in Indexes, t \in Types : openLightbox(i, t)
    \/ close
    \/ next
    \/ prev
    \/ \E id \in loads : imageLoaded(id, TRUE)

SpecShows == InitNav /\ [][NextShows]_vars

\* Records with malformed dimensions: decoded from files, and read back from
\* a collection an earlier session (or another writer) has stored.
NextMalformed ==
    \/ PageLoad
    \/ \E fs \in Singles({FlatFile, ThinFile, BlankFile}) : handleFileImport(fs)
    \/ getImageDimensions
    \/ addWallpaper

InitMalformed == InitStored({ThinFile, BlankFile, NegativeFile})

SpecMalformed == InitMalformed /\ [][NextMalformed]_vars

\* ------------------------------------------------------------- properties
master == heap[wallpapers]

landscape == heap[landscapeWallpapers]

portrait == heap[portraitWallpapers]

pinned == heap[currentWallpapers]

\* the records the current batch has appended
Appended == SubSeq(master, batchStart + 1, Len(master))

\* positions of recs holding a record made from file f
RecordsOf(recs, f) ==
    { i \in DOMAIN recs :
        recs[i].name = f.name /\ recs[i].width = f.width /\ recs[i].height = f.height }

\* positions of the batch holding file f, when f is accepted and decodes
DecodedAs(fs, f) == { j \in DOMAIN fs : fs[j] = f /\ isImage(f) /\ f.ok }

SomeDecodeFails(fs) == \E j \in DOMAIN fs : isImage(fs[j]) /\ ~fs[j].ok

\* the step that ends a batch
BatchEnds == importPc # "idle" /\ importPc' = "idle"

\* C1 (batch isolation): when a batch in which some accepted file fails to
\* decode ends, every accepted file that decodes has its record among the
\* records appended, a failing file has none, and the batch has persisted
\* once and rendered once.
BatchIsolation ==
    [][ (BatchEnds /\ SomeDecodeFails(files)) =>
            /\ \A j \in DOMAIN files :
                  isImage(files[j]) =>
                      Cardinality(RecordsOf(Appended', files[j]))
                          = Cardinality(DecodedAs(files, files[j]))
            /\ saveCount' = 1
            /\ renderCount' = 1 ]_vars

\* C2 (snapshot pinning): no step but an open request changes the list the
\* overlay has pinned, and the overlay's next and prev leave its cursor on a
\* record of that list.
SnapshotPinning ==
    [][ /\ lastOp' \notin {"openLandscape", "openPortrait"}
            => heap'[currentWallpapers'] = heap[currentWallpapers]
        /\ (lastOp' \in {"next", "prev"} /\ Len(pinned) >= 1)
            => currentIndex' \in 0..(Len(pinned) - 1) ]_vars

IsStrictPrefix(a, b) == Len(a) < Len(b) /\ SubSeq(b, 1, Len(a)) = a

\* the overlay browses a two-record portrait list that the collection has
\* since outgrown
SnapshotPinningWitness ==
    /\ isOpen
    /\ lastOp = "next"
    /\ Len(pinned) = 2
    /\ currentWallpapers # portraitWallpapers
    /\ IsStrictPrefix(pinned, portrait)

Occurrences(list, x) == Cardinality({ i \in DOMAIN list : list[i] = x })

\* C3 (partition totality): every record of the master list is exactly once
\* in exactly one sub-list, a square record in the portrait one; the
\* sub-lists hold nothing else and their lengths sum to the master's.
PartitionTotality ==
    /\ Len(landscape) + Len(portrait) = Len(master)
    /\ \A i \in DOMAIN master :
          /\ Occurrences(landscape, master[i]) + Occurrences(portrait, master[i]) = 1
          /\ master[i].width = master[i].height => Occurrences(portrait, master[i]) = 1
          /\ Occurrences(master, master[i]) = 1
    /\ \A i \in DOMAIN landscape : Occurrences(master, landscape[i]) = 1
    /\ \A i \in DOMAIN portrait : Occurrences(master, portrait[i]) = 1

\* an add has produced a collection with a landscape, a portrait and a square record
PartitionTotalityWitness ==
    /\ lastOp = "add"
    /\ \E i \in DOMAIN master : master[i].width > master[i].height
    /\ \E i \in DOMAIN master : master[i].width < master[i].height
    /\ \E i \in DOMAIN portrait : portrait[i].width = portrait[i].height

RECURSIVE NextTimes(_, _, _)
\* the slideshow cursor after k calls of nextSlide in a row
NextTimes(index, length, k) ==
    IF k = 0 THEN index ELSE NextTimes(nextIndex(index, length), length, k - 1)

RECURSIVE LightboxNextTimes(_, _, _)
\* the overlay cursor after k calls of next in a row
LightboxNextTimes(index, length, k) ==
    IF k = 0 THEN index
    ELSE LightboxNextTimes(lightboxNextIndex(index, length), length, k - 1)

\* the cursors 1..k calls in a row lead through
InRangeFor(Step(_, _, _), index, length) ==
    \A k \in 0..length : Step(index, length, k) \in 0..(length - 1)

\* C4 (cyclic closure): over a landscape list, and over a pinned snapshot, of
\* N >= 1 records, N calls of next in a row lead the cursor back to where it
\* is, through cursors in [0, N).
CyclicClosure ==
    /\ Len(landscape) >= 1 =>
          /\ NextTimes(currentSlideIndex, Len(landscape), Len(landscape)) = currentSlideIndex
          /\ InRangeFor(NextTimes, currentSlideIndex, Len(landscape))
    /\ Len(pinned) >= 1 =>
          /\ LightboxNextTimes(currentIndex, Len(pinned), Len(pinned)) = currentIndex
          /\ InRangeFor(LightboxNextTimes, currentIndex, Len(pinned))

\* nextSlide has just wrapped from the last of three slides to the first
CyclicClosureWitness ==
    /\ lastOp = "nextSlide"
    /\ Len(landscape) = 3
    /\ currentSlideIndex = 0
    /\ pending # <<>>
    /\ pending[Len(pending)] = 3

\* C5 (inverse steps): the step that undoes a next is prev, and the step that
\* undoes a prev is next, for the slideshow, the overlay and the wall.
InverseSteps ==
    [][ /\ (lastOp' = "nextSlide" /\ Len(landscape) >= 1)
            => prevIndex(currentSlideIndex', Len(landscape)) = currentSlideIndex
        /\ (lastOp' = "prevSlide" /\ Len(landscape) >= 1)
            => nextIndex(currentSlideIndex', Len(landscape)) = currentSlideIndex
        /\ (lastOp' = "next" /\ Len(pinned) >= 1)
            => lightboxPrevIndex(currentIndex', Len(pinned)) = currentIndex
        /\ (lastOp' = "prev" /\ Len(pinned) >= 1)
            => lightboxNextIndex(currentIndex', Len(pinned)) = currentIndex
        /\ (lastOp' = "navigate" /\ Len(portrait) >= 1)
            => wallIndex(activeItem(galleryItems'), 0 - lastArg', Len(galleryItems'))
                 = activeItem(galleryItems) ]_vars

\* prevSlide has just wrapped from the first of three slides to the last
InverseStepsWitness ==
    /\ lastOp = "prevSlide"
    /\ Len(landscape) = 3
    /\ currentSlideIndex = 2
    /\ pending # <<>>
    /\ pending[Len(pending)] = 1

\* C6 (empty-list safety): nextSlide and prevSlide on an empty landscape
\* list, navigate on an empty portrait list, the overlay's next and prev on
\* an empty snapshot and an open request for an empty list change nothing
\* the program holds.
EmptyListSafety ==
    [][ /\ (lastOp' \in {"nextSlide", "prevSlide"} /\ Len(landscape) = 0)
            => UNCHANGED progVars
        /\ (lastOp' = "navigate" /\ Len(portrait) = 0) => UNCHANGED progVars
        /\ (lastOp' \in {"next", "prev"} /\ Len(pinned) = 0) => UNCHANGED progVars
        /\ (lastOp' = "openLandscape" /\ Len(landscape) = 0) => UNCHANGED progVars
        /\ (lastOp' = "openPortrait" /\ Len(portrait) = 0) => UNCHANGED progVars ]_vars

\* navigate has run on a wall with no portrait record
EmptyListSafetyWitness ==
    /\ lastOp = "navigate"
    /\ Len(portrait) = 0
    /\ Len(landscape) >= 1

\* C7 (single slide): on a rendered landscape list of exactly one record,
\* nextSlide and prevSlide, and the cleanup that follows them, leave the
\* cursor at 0 and the slide active and without a prev / next marker.
SingleSlideNoOp ==
    [][ (/\ lastOp' \in {"nextSlide", "prevSlide", "cleanup"}
         /\ Len(landscape) = 1
         /\ Len(slides) = 1)
            => /\ currentSlideIndex' = 0
               /\ "active" \in slides'[1].marks
               /\ slides'[1].marks \cap {"prev", "next"} = {} ]_vars

\* C8 (open clamps): after an open request for a list that is not empty,
\* whatever its index, the overlay is open on that list with its cursor
\* inside it.
OpenClamps ==
    /\ (lastOp = "openLandscape" /\ Len(landscape) >= 1) =>
          /\ isOpen
          /\ currentWallpapers = landscapeWallpapers
          /\ currentIndex \in 0..(Len(landscape) - 1)
    /\ (lastOp = "openPortrait" /\ Len(portrait) >= 1) =>
          /\ isOpen
          /\ currentWallpapers = portraitWallpapers
          /\ currentIndex \in 0..(Len(portrait) - 1)

\* an open request carried an index beyond the end of a two-record list
OpenClampsWitness ==
    /\ lastOp = "openPortrait"
    /\ Len(portrait) = 2
    /\ lastArg >= 2
    /\ currentIndex = 1

\* C9 (idempotent stop): stopSlideShow leaves no handle and no timer, a
\* second stopSlideShow right after it changes nothing, and never is more
\* than one auto-advance timer running.
IdempotentStop ==
    /\ [](Cardinality(intervals) <= 1)
    /\ [](lastOp = "stop" => (slideInterval = 0 /\ intervals = {}))
    /\ [][ (lastOp = "stop" /\ lastOp' = "stop") => UNCHANGED progVars ]_vars

\* stopSlideShow was called on a slideshow that togglePlay had started
IdempotentStopWitness ==
    /\ lastOp = "stop"
    /\ isPlaying
    /\ intervals = {}

\* C10 (timer and state): the auto-advance timer runs exactly when isPlaying
\* holds, togglePlay flips isPlaying, nextSlide and prevSlide leave it.
TimerIffPlaying ==
    /\ [](/\ isPlaying <=> intervals # {}
          /\ isPlaying <=> slideInterval # 0
          /\ intervals \subseteq {slideInterval})
    /\ [][ /\ lastOp' = "togglePlay" => isPlaying' = ~isPlaying
           /\ lastOp' \in {"nextSlide", "prevSlide"}
                => (isPlaying' = isPlaying /\ intervals' = intervals) ]_vars

\* nextSlide has run while the slideshow plays
TimerIffPlayingWitness ==
    /\ lastOp = "nextSlide"
    /\ isPlaying
    /\ intervals # {}
    /\ Len(landscape) >= 2
    /\ currentSlideIndex = 1

\* slides carrying a transient direction marker
Marked == { i \in DOMAIN slides : slides[i].marks \cap {"prev", "next"} # {} }

\* slides a pending cleanup will clear
Awaited == { pending[k] : k \in DOMAIN pending }

\* C11 (no stuck marker): every slide that carries a prev / next marker has a
\* cleanup pending for it, so that once every pending cleanup has fired no
\* slide carries one, however closely nextSlide and prevSlide followed each
\* other.
NoStuckMarker ==
    /\ Marked \subseteq Awaited
    /\ pending = <<>> => Marked = {}

\* two cleanups in a row, of two navigations less than a settle delay apart,
\* have emptied the queue
NoStuckMarkerWitness ==
    /\ lastOp = "cleanup"
    /\ lastArg = 2
    /\ pending = <<>>
    /\ Len(slides) >= 2
    /\ \E i \in DOMAIN slides : "active" \in slides[i].marks

\* the wall cursor: the item carrying 'active'
WallCursor(items) == activeItem(items)

\* the bands the item at index (from 0) is to carry around cursor c of N items
BandsAt(index, c, N) ==
    IF index = c THEN {"active"}
    ELSE (IF index = rem(c - 1 + N, N) THEN {"prev"} ELSE {})
            \cup (IF index = rem(c + 1, N) THEN {"next"} ELSE {})

\* C12 (wall banding): after a navigate over N >= 1 portrait records the item
\* at the cursor alone is active, the item before it (modulo N) carries prev,
\* the item after it carries next, and no item carries another band; of two
\* items the one that is not active is both the one before and the one after.
WallBanding ==
    [][ (lastOp' = "navigate" /\ Len(portrait) >= 1) =>
            /\ Len(galleryItems') = Len(portrait)
            /\ \A i \in DOMAIN galleryItems' :
                  galleryItems'[i].marks
                      = BandsAt(i - 1, WallCursor(galleryItems'), Len(galleryItems')) ]_vars

\* WallBanding but for walls of exactly two items
WallBandingButTwo ==
    [][ (lastOp' = "navigate" /\ Len(portrait) >= 1 /\ Len(portrait) # 2) =>
            /\ Len(galleryItems') = Len(portrait)
            /\ \A i \in DOMAIN galleryItems' :
                  galleryItems'[i].marks
                      = BandsAt(i - 1, WallCursor(galleryItems'), Len(galleryItems')) ]_vars

\* C13 (open / close discipline): the page's scroll is suspended exactly
\* when the overlay is open; close on an overlay that is not open changes
\* nothing; close on an open overlay clears isOpen and restores the scroll
\* and changes nothing else but the overlay's 'active' class; a second close
\* right after a close changes nothing.
OpenCloseDiscipline ==
    /\ [](isOpen <=> bodyOverflow = "hidden")
    /\ [](isOpen <=> lightboxActive)
    /\ [][ /\ (lastOp' = "close" /\ ~isOpen) => UNCHANGED progVars
           /\ (lastOp' = "close" /\ isOpen) =>
                 /\ ~isOpen'
                 /\ bodyOverflow' = ""
                 /\ UNCHANGED <<storeVars, slideVars, wallVars, registryVars, currentIndex,
                                currentWallpapers, lightboxImage, loads, loading,
                                importPc, files, fileIdx>>
           /\ (lastOp = "close" /\ lastOp' = "close") => UNCHANGED progVars ]_vars

\* an overlay that was opened on two records has been closed
OpenCloseDisciplineWitness ==
    /\ lastOp = "close"
    /\ ~isOpen
    /\ bodyOverflow = ""
    /\ Len(pinned) = 2
    /\ loads # {}

KeyOps == {"keyEscape", "keyArrowLeft", "keyArrowRight", "keySpace"}

\* C14 (overlay keyboard): on an open overlay Escape closes, ArrowLeft does
\* what the overlay's prev does and ArrowRight what its next does; on an
\* overlay that is not open no key changes isOpen, the cursor, the pinned
\* list or anything else the overlay holds.
OverlayKeyboard ==
    [][ /\ (isOpen /\ lastOp' = "keyEscape") =>
              /\ ~isOpen'
              /\ ~lightboxActive'
              /\ bodyOverflow' = ""
              /\ currentIndex' = currentIndex
        /\ (isOpen /\ lastOp' = "keyArrowLeft") =>
              /\ isOpen'
              /\ currentIndex' =
                    (IF Len(pinned) <= 1 THEN currentIndex
                     ELSE (currentIndex - 1 + Len(pinned)) % Len(pinned))
        /\ (isOpen /\ lastOp' = "keyArrowRight") =>
              /\ isOpen'
              /\ currentIndex' =
                    (IF Len(pinned) <= 1 THEN currentIndex
                     ELSE (currentIndex + 1) % Len(pinned))
        /\ lastOp' \in KeyOps =>
              /\ currentWallpapers' = currentWallpapers
              /\ heap'[currentWallpapers'] = pinned
        /\ (~isOpen /\ lastOp' \in KeyOps) => UNCHANGED lightboxVars ]_vars

\* ArrowRight has moved an open overlay from the first of two records to the
\* second
OverlayKeyboardWitness ==
    /\ lastOp = "keyArrowRight"
    /\ isOpen
    /\ Len(pinned) = 2
    /\ currentIndex = 1

\* a key has been pressed on an overlay that Escape had closed
OverlayKeyboardClosedWitness ==
    /\ lastOp = "keyArrowLeft"
    /\ ~isOpen
    /\ Len(pinned) = 2

\* what is stored under animation_settings.json
storedSettings == localStorage[jsonKey("animation_settings.json")]

\* the other category
Other(type) == IF type = "landscape" THEN "portrait" ELSE "landscape"

\* what a fresh AnimationManager and a fresh Gallery hold after loading from store
FreshLoad(store) == loadSettings(store, defaultSettings)

FreshGalleryLoad(store) == loadAnimationSettings(store, defaultSettings)

\* C15 (settings round trip): with nothing persisted a load gives slide for
\* both categories; from any state, selecting a catalog style s for one
\* category and persisting, then loading afresh, gives s for that category
\* and the value the other category had; and each step on the way does its
\* part: a select changes its category only, a persist that the storage
\* accepts stores the selection, a load takes what is stored.
SettingsRoundTrip ==
    /\ [](~storedSettings.has =>
            /\ FreshLoad(localStorage) = [landscape |-> "slide", portrait |-> "slide"]
            /\ FreshGalleryLoad(localStorage) = [landscape |-> "slide", portrait |-> "slide"])
    /\ [](\A type \in Types, s \in Catalog :
            LET selected == selectAnimation(currentSettings, type, s)
                persisted == saveToJSON(localStorage, "animation_settings.json", selected, TRUE)
            IN  /\ FreshLoad(persisted)[type] = s
                /\ FreshLoad(persisted)[Other(type)] = currentSettings[Other(type)]
                /\ FreshGalleryLoad(persisted) = FreshLoad(persisted))
    /\ [][ /\ lastOp' = "selectLandscape" =>
                 /\ currentSettings'.landscape = styleOrder[lastArg']
                 /\ currentSettings'.portrait = currentSettings.portrait
           /\ lastOp' = "selectPortrait" =>
                 /\ currentSettings'.portrait = styleOrder[lastArg']
                 /\ currentSettings'.landscape = currentSettings.landscape
           /\ lastOp' = "saveSettings" =>
                 /\ storedSettings'.has
                 /\ JSONparse(storedSettings'.text) = currentSettings
           /\ (lastOp' = "loadSettings" /\ storedSettings.has) =>
                 currentSettings' = JSONparse(storedSettings.text)
           /\ (lastOp' = "load" /\ storedSettings.has) =>
                 animationSettings' = JSONparse(storedSettings.text) ]_vars

\* zoom was selected for landscape and persisted, and a fresh load has read it
SettingsRoundTripWitness ==
    /\ lastOp = "loadSettings"
    /\ storedSettings.has
    /\ currentSettings = [landscape |-> "zoom", portrait |-> "slide"]

\* the step that completes a batch of at least one file: the loop has run
\* past the last file
BatchCompletes ==
    /\ importPc' = "idle"
    /\ \/ lastOp' = "add"
       \/ lastOp' = "import" /\ lastArg' >= 1

\* C16 (one persist, one render): while a batch is between two of its files
\* nothing has been persisted or rendered for it, and the step that completes
\* a batch of N >= 1 files, all accepted ones decoded, is the one persist and
\* the one render of the batch.
PersistsOnce ==
    [][ /\ importPc' # "idle" =>
              /\ saveCount' = 0
              /\ renderCount' = 0
              /\ UNCHANGED <<localStorage, slides, emptySlide, galleryItems>>
        /\ BatchCompletes =>
              /\ saveCount' = 1
              /\ renderCount' = 1 ]_vars

\* a batch has completed with the add of its third file
PersistsOnceWitness ==
    /\ lastOp = "add"
    /\ lastArg = 3
    /\ importPc = "idle"
    /\ Len(Appended) = 3
    /\ saveCount = 1
    /\ renderCount = 1

\* the slide set is the one a render builds from the landscape list
FreshlyRendered ==
    /\ Len(slides) = Len(landscape)
    /\ \A i \in DOMAIN slides :
          /\ slides[i].img = landscape[i].id
          /\ slides[i].marks = (IF i = 1 THEN {"active"} ELSE {})
    /\ currentSlideIndex = 0
    /\ emptySlide <=> Len(landscape) = 0

\* the step is a completed render: the page's start or the end of a batch
RenderCompletes == lastOp' = "load" \/ (BatchCompletes /\ renderCount' = 1)

\* C17 (render): after every completed render, at startup and after an
\* import batch, the slides are those of the current landscape list in its
\* order, the cursor is 0, the first slide alone is active, and the
\* placeholder stands in for an empty list and for nothing else.
RenderRebuilds ==
    /\ [](lastOp = "init" => FreshlyRendered)
    /\ [][ RenderCompletes => FreshlyRendered' ]_vars

\* a batch has ended on a slideshow that plays: its render shows two slides
RenderRebuildsWitness ==
    /\ lastOp = "add"
    /\ importPc = "idle"
    /\ renderCount = 1
    /\ Len(slides) = 2
    /\ isPlaying
    /\ currentSlideIndex = 0

\* the files of fs at positions 1..i that Utils.isImage accepts, in order
AcceptedUpTo(fs, i) == SelectSeq(SubSeq(fs, 1, i), LAMBDA f : f.name \in
    { LandscapeFile.name, PortraitFile.name, SquareFile.name, BrokenFile.name })

\* recs are the records of the files fs, one for one and in order
RecordsInOrder(recs, fs) ==
    /\ Len(recs) = Len(fs)
    /\ \A k \in DOMAIN recs :
          /\ recs[k].name = fs[k].name
          /\ recs[k].width = fs[k].width
          /\ recs[k].height = fs[k].height

\* C18 (sequential ingest): while the file at a position of the batch is
\* being decoded, every accepted file before it has its record already and
\* no later file has one, and each add appends its file's record after
\* them: the batch's records are in the order the files were submitted.
SequentialIngest ==
    /\ [](importPc \in {"dims", "thumb"} =>
            /\ fileIdx \in DOMAIN files
            /\ RecordsInOrder(Appended, AcceptedUpTo(files, fileIdx - 1)))
    /\ [][ lastOp' = "add" =>
              RecordsInOrder(Appended', AcceptedUpTo(files, fileIdx)) ]_vars

\* a batch of a portrait, a landscape and a square file, added in that order
SequentialIngestWitness ==
    /\ lastOp = "add"
    /\ lastArg = 3
    /\ Len(Appended) = 3
    /\ Appended[1].name = PortraitFile.name
    /\ Appended[2].name = LandscapeFile.name
    /\ Appended[3].name = SquareFile.name

\* positions of fs holding a file other than the .txt one
NotText(fs) == { j \in DOMAIN fs : fs[j] # TextFile }

\* C19 (unsupported extension): a .txt file never has a record; it raises
\* no error (a batch fails only at an accepted file that does not decode);
\* and a batch holding one, once every other file of it has decoded, ends
\* with a record for each of the others, one persist and one render.
SkipsUnsupported ==
    /\ [](RecordsOf(master, TextFile) = {})
    /\ [][ /\ lastOp' = "importFailed" =>
                 /\ files[fileIdx] # TextFile
                 /\ ~files[fileIdx].ok
           /\ (lastOp' = "import" /\ lastArg' >= 1 /\ importPc' = "dims") =>
                 /\ files'[fileIdx'] # TextFile
                 /\ \A j \in 1..(fileIdx' - 1) : files'[j] = TextFile
           /\ lastOp' = "add" =>
                 /\ Len(Appended') = Cardinality({ j \in NotText(files) : j <= fileIdx })
                 /\ importPc' = "dims" =>
                       /\ files'[fileIdx'] # TextFile
                       /\ \A j \in (fileIdx + 1)..(fileIdx' - 1) : files[j] = TextFile
                 /\ importPc' = "idle" =>
                       /\ \A j \in (fileIdx + 1)..Len(files) : files[j] = TextFile
                       /\ Len(Appended') = Cardinality(NotText(files))
                       /\ saveCount' = 1
                       /\ renderCount' = 1
           /\ (lastOp' = "import" /\ lastArg' >= 1 /\ importPc' = "idle") =>
                 /\ Len(master') = Len(master)
                 /\ saveCount' = 1
                 /\ renderCount' = 1 ]_vars

\* the third file of a batch has been added as its second record: a .txt
\* file before it was skipped, and the batch has persisted and rendered
SkipsUnsupportedWitness ==
    /\ lastOp = "add"
    /\ lastArg = 3
    /\ importPc = "idle"
    /\ Len(Appended) = 2
    /\ saveCount = 1
    /\ renderCount = 1

\* C20 (classification result): the landscape list is the master list's
\* records with width > height and the portrait list those with
\* height >= width, each in the master list's order, in every state (so
\* after every add and every load).
ClassificationResult ==
    /\ landscape = SelectSeq(master, LAMBDA r : r.width > r.height)
    /\ portrait = SelectSeq(master, LAMBDA r : r.height >= r.width)

\* a landscape, a portrait and another landscape record: the landscape list
\* is the first and the third, the portrait list the second
ClassificationResultWitness ==
    /\ lastOp = "add"
    /\ Len(master) = 3
    /\ master[1].width > master[1].height
    /\ master[2].width < master[2].height
    /\ master[3].width > master[3].height
    /\ landscape = << master[1], master[3] >>
    /\ portrait = << master[2] >>

\* two portrait records of different shape, loaded from storage
ClassificationLoadWitness ==
    /\ lastOp = "load"
    /\ Len(portrait) = 2
    /\ portrait[1].width = portrait[1].height
    /\ portrait[2].width < portrait[2].height

\* a record whose width or height is zero or negative
Malformed(r) == r.width <= 0 \/ r.height <= 0

\* C21 (malformed dimensions): every record of the master list with a zero
\* or negative width or height is in the portrait list and not in the
\* landscape list.
MalformedIsPortrait ==
    \A i \in DOMAIN master :
        Malformed(master[i]) =>
            /\ Occurrences(portrait, master[i]) = 1
            /\ Occurrences(landscape, master[i]) = 0

\* C21 as the code has it: a malformed record is classified by the rule of
\* any other record, so it is in exactly one sub-list: the landscape one when
\* its width exceeds its height (2 by 0, 1 by -1), the portrait one otherwise
\* (0 by 2, 0 by 0).
MalformedByComparison ==
    \A i \in DOMAIN master :
        Malformed(master[i]) =>
            IF master[i].width > master[i].height
            THEN /\ Occurrences(landscape, master[i]) = 1
                 /\ Occurrences(portrait, master[i]) = 0
            ELSE /\ Occurrences(portrait, master[i]) = 1
                 /\ Occurrences(landscape, master[i]) = 0

\* a batch has added a record 2 wide and 0 high, and the landscape list has it
MalformedByComparisonWitness ==
    /\ lastOp = "add"
    /\ RecordsOf(Appended, FlatFile) # {}
    /\ RecordsOf(landscape, FlatFile) # {}
    /\ RecordsOf(portrait, FlatFile) = {}

\* the step is a preview load completing, with success or with an error
LoadCompletes == lastOp' \in {"imageLoaded", "imageError"}

\* C22 (late load): a preview load that completes, with success or with an
\* error, while the overlay is closed changes neither isOpen, nor the cursor,
\* nor the pinned snapshot, nor the displayed image.
LateLoadIsNoOp ==
    [][(LoadCompletes /\ ~isOpen) =>
          /\ isOpen' = isOpen
          /\ currentIndex' = currentIndex
          /\ currentWallpapers' = currentWallpapers
          /\ heap'[currentWallpapers'] = pinned
          /\ lightboxImage' = lightboxImage]_vars

\* C23 (load failure): the step in which a preview load fails leaves the
\* displayed image, isOpen, the cursor and the pinned snapshot as they were
\* and clears the loading indicator.
LoadFailureKeepsImage ==
    [][lastOp' = "imageError" =>
          /\ lightboxImage' = lightboxImage
          /\ isOpen' = isOpen
          /\ currentIndex' = currentIndex
          /\ currentWallpapers' = currentWallpapers
          /\ heap'[currentWallpapers'] = pinned
          /\ loading' = FALSE]_vars

\* the overlay is open on a record whose load has just failed, still showing
\* the image of another record, and the indicator is off
LoadFailureKeepsImageWitness ==
    /\ lastOp = "imageError"
    /\ isOpen
    /\ loads = {}
    /\ lightboxImage # 0
    /\ lightboxImage # pinned[currentIndex + 1].id
    /\ ~loading

\* C29 (display convergence): with every preview load succeeding, once the
\* last load in flight has completed the open overlay displays the image of
\* the record at its cursor.
DisplayConverges ==
    (lastOp = "imageLoaded" /\ isOpen /\ loads = {}) =>
        lightboxImage = pinned[currentIndex + 1].id

\* the step is a select of the registry
Selects == lastOp' \in {"selectLandscape", "selectPortrait"}

\* C24 (select is in memory only): a select step changes nothing but the
\* registry's selection of its category: the stored animation_settings value,
\* the other category's selection and the styles the Gallery applies stay as
\* they were; the stored value changes only in a persist step, and the
\* Gallery's styles only in a load, which takes what is stored by then.
SelectInMemoryOnly ==
    /\ [][Selects =>
             /\ localStorage' = localStorage
             /\ animationSettings' = animationSettings
             /\ lastOp' = "selectLandscape" => currentSettings'.portrait = currentSettings.portrait
             /\ lastOp' = "selectPortrait" => currentSettings'.landscape = currentSettings.landscape
             /\ UNCHANGED <<heap, wallpapers, landscapeWallpapers, portraitWallpapers,
                            slideVars, wallVars, lightboxVars>>]_vars
    /\ [][storedSettings' # storedSettings => lastOp' = "saveSettings"]_vars
    /\ [][animationSettings' # animationSettings =>
             /\ lastOp' = "load"
             /\ animationSettings' = FreshGalleryLoad(localStorage)]_vars

\* wave has just been selected for portrait while zoom is stored for landscape
\* and the Gallery, loaded before, still applies slide to both
SelectInMemoryOnlyWitness ==
    /\ lastOp = "selectPortrait"
    /\ currentSettings = [landscape |-> "zoom", portrait |-> "wave"]
    /\ storedSettings.has
    /\ JSONparse(storedSettings.text) = [landscape |-> "zoom", portrait |-> "slide"]
    /\ animationSettings = [landscape |-> "slide", portrait |-> "slide"]

\* C25 (closed catalog): the selection of each category, in the registry and
\* in the Gallery, and every selection persisted, is one of the 8 styles of
\* the catalog.
SelectionsInCatalog ==
    /\ \A type \in Types :
          /\ currentSettings[type] \in Catalog
          /\ animationSettings[type] \in Catalog
    /\ storedSettings.has =>
          \A type \in Types : JSONparse(storedSettings.text)[type] \in Catalog

\* the Gallery has loaded the persisted pair bounce / wave, neither of them
\* the default
SelectionsInCatalogWitness ==
    /\ lastOp = "load"
    /\ storedSettings.has
    /\ animationSettings = [landscape |-> "bounce", portrait |-> "wave"]
    /\ currentSettings.landscape = "cube"

storedWallpapers == localStorage[jsonKey("wallpapers.json")]

\* the other key of the storage
OtherKey(key) == IF key = "json_wallpapers" THEN "json_animation_settings" ELSE "json_wallpapers"

\* what the gateway owes for a key, a value v to write and a default
GatewayLaws(key, v, dflt) ==
    /\ ~Readable(localStorage, key) => getFromStorage(localStorage, key, dflt) = dflt
    /\ saveToStorage(localStorage, key, v, FALSE) = localStorage
    /\ getFromStorage(saveToStorage(localStorage, key, v, TRUE), key, dflt) = v
    /\ saveToStorage(localStorage, key, v, TRUE)[OtherKey(key)] = localStorage[OtherKey(key)]

\* C26 (storage tolerance): in every state and for either key, a read of a
\* key that is missing or whose text does not parse gives the caller's
\* default, a refused write gives back the storage as it was, and an accepted
\* write of v is read back as v and leaves the other key's item alone; and
\* the program's steps show the same: a refused persist changes nothing and
\* the step completes, an accepted persist is read back as the selection, a
\* batch's save leaves the settings alone, is read back as the master list
\* when accepted, and is followed by the batch's render even when refused,
\* and a load that cannot read a key starts from the defaults.
StorageTolerance ==
    /\ [](\A key \in DOMAIN localStorage :
            /\ GatewayLaws(key, currentSettings, defaultSettings)
            /\ GatewayLaws(key, master, <<>>))
    /\ [][ /\ lastOp' = "saveSettingsRefused" =>
                 /\ localStorage' = localStorage
                 /\ currentSettings' = currentSettings
           /\ lastOp' = "saveSettings" =>
                 /\ getFromJSON(localStorage', "animation_settings.json", <<>>) = currentSettings
                 /\ storedWallpapers' = storedWallpapers
           /\ BatchCompletes =>
                 /\ storedSettings' = storedSettings
                 /\ \/ storedWallpapers' = storedWallpapers
                    \/ getFromJSON(localStorage', "wallpapers.json", <<>>) = master'
                 /\ renderCount' = renderCount + 1
           /\ (lastOp' = "load" /\ ~Readable(localStorage, "json_wallpapers")) =>
                 master' = <<>>
           /\ (lastOp' = "load" /\ ~Readable(localStorage, "json_animation_settings")) =>
                 animationSettings' = defaultSettings
           /\ (lastOp' = "loadSettings" /\ ~Readable(localStorage, "json_animation_settings")) =>
                 currentSettings' = defaultSettings ]_vars

\* a persist has just been refused: the selection persisted before, which
\* differs from the one in memory, and the stored collection are still there
StorageToleranceWitness ==
    /\ lastOp = "saveSettingsRefused"
    /\ Readable(localStorage, "json_animation_settings")
    /\ JSONparse(storedSettings.text) # currentSettings
    /\ Readable(localStorage, "json_wallpapers")
    /\ Len(JSONparse(storedWallpapers.text)) >= 1

\* a page load has just found a stored collection that does not parse and
\* shows an empty gallery
StorageToleranceGarbledWitness ==
    /\ lastOp = "load"
    /\ storedWallpapers = [has |-> TRUE, text |-> Garbled]
    /\ master = <<>>

\* positions of the slides that carry the active class
ActiveSlides == { i \in DOMAIN slides : "active" \in slides[i].marks }

\* C27 (one active slide): with no import in progress and the slides those
\* rendered from a landscape list of N >= 2 records, exactly one slide carries
\* the active class and it is the slide at the slideshow cursor, whatever
\* nextSlide, prevSlide, ticks and cleanups have run since the render.
OneActiveSlide ==
    (importPc = "idle" /\ Len(landscape) >= 2 /\ Len(slides) = Len(landscape)) =>
        ActiveSlides = {currentSlideIndex + 1}

\* an auto-advance tick has moved the cursor off the first slide while the
\* cleanups of two transitions are still pending
OneActiveSlideWitness ==
    /\ lastOp = "tick"
    /\ importPc = "idle"
    /\ Len(landscape) >= 2
    /\ Len(pending) >= 2
    /\ currentSlideIndex >= 1
    /\ ActiveSlides = {currentSlideIndex + 1}

\* the step is a navigation of the slideshow, manual or by the timer
Navigates == lastOp' \in {"nextSlide", "prevSlide", "tick"}

\* the batch in progress has added a record and awaits the decode of a
\* further file
BetweenAdds == importPc # "idle" /\ Len(Appended) >= 1

\* C28 (navigation inside an import): a nextSlide, prevSlide or tick that
\* runs while a batch is between two of its adds, from a cursor that indexes
\* the active slide, leaves the cursor on a slide that exists, and that slide
\* is the active one.
NavigationInsideImport ==
    [][(Navigates /\ BetweenAdds /\ ActiveSlides = {currentSlideIndex + 1}) =>
          /\ currentSlideIndex' + 1 \in DOMAIN slides'
          /\ ActiveSlides' = {currentSlideIndex' + 1}]_vars

\* C30 (cursor independence): an ArrowLeft or ArrowRight key press on an open
\* overlay leaves the slideshow cursor, the slide that is active and the
\* playing state as they were.
OverlayArrowsLeaveSlideshow ==
    [][(isOpen /\ lastOp' \in {"keyArrowLeft", "keyArrowRight"}) =>
          /\ currentSlideIndex' = currentSlideIndex
          /\ ActiveSlides' = ActiveSlides
          /\ isPlaying' = isPlaying]_vars

\* the step is one activation of a control of the wall or one ArrowUp /
\* ArrowDown key press
WallRequest == lastOp' \in {"wallClick", "wallKey"}

\* C31 (one wall step per request): one activation of the wall's prev / next
\* control, or one ArrowUp / ArrowDown key press, over a portrait list of
\* N >= 1 records moves the wall cursor by one position in the direction
\* asked, modulo N, however many renders the page has made.
OneWallStep ==
    [][(WallRequest /\ Len(portrait) >= 1) =>
          WallCursor(galleryItems')
              = rem(WallCursor(galleryItems) + lastArg' + Len(portrait), Len(portrait))]_vars

====
